---------------------------- MODULE Spec2Model ----------------------------
(***************************************************************************)
(* Image gallery: a gallery page (browser component), an upload endpoint   *)
(* (POST /api/upload) and a list endpoint (GET /api/images) in front of an *)
(* external media store.                                                   *)
(*                                                                         *)
(* Text the code inspects character by character (MIME types, names,       *)
(* identifiers, the search term) is a sequence of one-character strings;   *)
(* text the code only passes along (error messages, alerts) is a string.   *)
(***************************************************************************)
EXTENDS Integers, Sequences, FiniteSets, TLC

(***************************************************************************)
(* Bounds of the model.                                                    *)
(***************************************************************************)
MaxBatches == 1   \* upload batches (file selections or drops) per run
MaxDirect == 2    \* requests other clients send to the two endpoints
MaxSmallBytes == 64   \* formatFileSize is tried on every count up to this one
MaxDrops == 2     \* drops that start a batch, one after another, per run

(***************************************************************************)
(* Program constants.                                                      *)
(***************************************************************************)
MaxResults == 500     \* .max_results(500) of the list endpoint
Undefined == 0 - 1    \* a numeric field the store does not report

(***************************************************************************)
(* Text helpers.                                                           *)
(***************************************************************************)
\* String.prototype.startsWith
StartsWith(s, p) ==
  /\ Len(s) >= Len(p)
  /\ SubSeq(s, 1, Len(p)) = p

\* String.prototype.includes
Includes(s, p) ==
  \E k \in 0..(Len(s) - Len(p)) : SubSeq(s, k + 1, k + Len(p)) = p

LowerChar(c) ==
  CASE c = "A" -> "a"
    [] c = "B" -> "b"
    [] c = "G" -> "g"
    [] OTHER -> c

\* String.prototype.toLowerCase
ToLowerCase(s) == [k \in 1..Len(s) |-> LowerChar(s[k])]

\* s.split('/').pop(): the text after the last '/', the whole text without one
RECURSIVE SplitPop(_)
SplitPop(s) ==
  IF s = <<>> THEN <<>>
  ELSE IF s[Len(s)] = "/" THEN <<>>
  ELSE Append(SplitPop(SubSeq(s, 1, Len(s) - 1)), s[Len(s)])

\* a || b on text: the empty text and undefined are falsy
OrElse(a, b) == IF a # <<>> THEN a ELSE b

(***************************************************************************)
(* Files the user can select or drop.                                      *)
(***************************************************************************)
ImagePng == <<"i", "m", "a", "g", "e", "/", "p", "n", "g">>
TextPlain == <<"t", "e", "x", "t", "/", "p", "l", "a", "i", "n">>
ImageNoSlash == <<"i", "m", "a", "g", "e">>

Png == [name |-> <<"A", "b">>, type |-> ImagePng, size |-> 10]
Txt == [name |-> <<"a">>, type |-> TextPlain, size |-> 3]
Odd == [name |-> <<"B">>, type |-> ImageNoSlash, size |-> 0]

\* The file lists a file dialog or a drop can deliver: none, one image, no
\* image, and two images around a text file.
FileLists == {<<>>, <<Png>>, <<Txt, Odd>>, <<Png, Txt, Png>>}

(***************************************************************************)
(* The media store (external): a sequence of resources in creation order.  *)
(***************************************************************************)
Gallery == <<"g", "a", "l", "l", "e", "r", "y">>
IdChars == <<"1", "2", "3", "4", "5", "6", "7", "8", "9">>

StoreErrors == {"ETIMEDOUT", "Empty file"}

\* What the store can answer to one call: success, or a failure with a detail.
StoreOutcomes ==
  [ok : {TRUE}, detail : {""}] \cup [ok : {FALSE}, detail : StoreErrors]

\* The resource the store creates for an uploaded buffer under `folder`: the
\* n-th object of the store.  The endpoint hands over the bytes only, so the
\* store records no original filename.
NewResource(file, folder, n) ==
  LET pid == folder \o <<"/", IdChars[n]>>
  IN [public_id |-> pid,
      secure_url |-> <<"s", ":">> \o pid,
      width |-> IF StartsWith(file.type, <<"i", "m", "a", "g", "e", "/">>)
                THEN file.size + 1 ELSE Undefined,
      height |-> IF StartsWith(file.type, <<"i", "m", "a", "g", "e", "/">>)
                 THEN 1 ELSE Undefined,
      format |-> SplitPop(file.type),
      bytes |-> file.size,
      created_at |-> n,
      original_filename |-> <<>>]

\* An object put in the folder by other means, with a recorded filename.
Legacy ==
  [public_id |-> Gallery \o <<"/", "A", "b">>,
   secure_url |-> <<"s", ":">> \o Gallery \o <<"/", "A", "b">>,
   width |-> 4, height |-> 3, format |-> <<"p", "n", "g">>, bytes |-> 1536,
   created_at |-> 0, original_filename |-> <<"B", "a">>]

\* What the store may hold when the page is opened.
InitialStores == {<<>>, <<Legacy>>}

RECURSIVE Reverse(_)
Reverse(q) == IF q = <<>> THEN <<>> ELSE Append(Reverse(Tail(q)), Head(q))

Take(q, n) == SubSeq(q, 1, IF Len(q) < n THEN Len(q) ELSE n)

\* search.expression(`folder:${folder}/*`).sort_by('created_at','desc')
\*   .max_results(500).execute()
StoreSearch(st, folder) ==
  LET under == SelectSeq(st, LAMBDA r : StartsWith(r.public_id, Append(folder, "/")))
  IN [resources |-> Take(Reverse(under), MaxResults), total_count |-> Len(under)]

(***************************************************************************)
(* Upload endpoint: POST /api/upload.                                      *)
(***************************************************************************)
NoFile == [name |-> <<>>, type |-> <<>>, size |-> 0]
NoDescriptor ==
  [public_id |-> <<>>, secure_url |-> <<>>, width |-> Undefined,
   height |-> Undefined, format |-> <<>>, bytes |-> Undefined, created_at |-> 0]

\* The `file` entry of the request's form: a file part, a text field, no entry;
\* "badform" is a body request.formData() cannot parse.
FilePart(f) == [kind |-> "file", text |-> <<>>, file |-> f]
TextPart(t) == [kind |-> "text", text |-> t, file |-> NoFile]
NoPart == [kind |-> "none", text |-> <<>>, file |-> NoFile]
BadForm == [kind |-> "badform", text |-> <<>>, file |-> NoFile]

\* !file : null and the empty string are falsy, a File object never is.
Falsy(part) == part.kind = "none" \/ (part.kind = "text" /\ part.text = <<>>)

UploadDescriptor(result) ==
  [public_id |-> result.public_id,
   secure_url |-> result.secure_url,
   width |-> result.width,
   height |-> result.height,
   format |-> result.format,
   bytes |-> result.bytes,
   created_at |-> result.created_at]

\* { error: error.message }: the store's detail in the body
UploadErrorBodyLeaky(detail) == detail

\* The body's error text of the catch block of POST.
UploadErrorBody(detail) == "Upload failed"

\* The handler on one request; `out` is what the store answers if it is
\* called, n the index the store gives a new object. invoked: whether
\* cloudinary.uploader.upload_stream was called.
POST(part, out, n) ==
  IF part.kind = "badform"
  THEN [status |-> 500, error |-> UploadErrorBody("formData"),
        descriptor |-> NoDescriptor, invoked |-> FALSE, created |-> FALSE]
  ELSE IF Falsy(part)
  THEN [status |-> 400, error |-> "No file provided",
        descriptor |-> NoDescriptor, invoked |-> FALSE, created |-> FALSE]
  ELSE IF part.kind = "text"
  THEN \* file.arrayBuffer is not a function: TypeError, caught
       [status |-> 500, error |-> UploadErrorBody("TypeError"),
        descriptor |-> NoDescriptor, invoked |-> FALSE, created |-> FALSE]
  ELSE IF out.ok
  THEN [status |-> 200, error |-> "",
        descriptor |-> UploadDescriptor(NewResource(part.file, Gallery, n)),
        invoked |-> TRUE, created |-> TRUE]
  ELSE [status |-> 500, error |-> UploadErrorBody(out.detail),
        descriptor |-> NoDescriptor, invoked |-> TRUE, created |-> FALSE]

(***************************************************************************)
(* List endpoint: GET /api/images.                                         *)
(***************************************************************************)
ListDescriptor(resource) ==
  [public_id |-> resource.public_id,
   secure_url |-> resource.secure_url,
   width |-> resource.width,
   height |-> resource.height,
   format |-> resource.format,
   bytes |-> resource.bytes,
   created_at |-> resource.created_at,
   original_filename |-> OrElse(resource.original_filename, resource.public_id)]

\* The body's error text of the catch block of GET.
ListErrorBody(detail) == "Failed to fetch images"

\* folderParam is searchParams.get('folder'): <<>> when the parameter is absent.
GET(folderParam, out, st) ==
  IF out.ok
  THEN LET result == StoreSearch(st, OrElse(folderParam, Gallery))
       IN [status |-> 200, error |-> "",
           images |-> [k \in 1..Len(result.resources) |->
                         ListDescriptor(result.resources[k])],
           total_count |-> result.total_count]
  ELSE [status |-> 500, error |-> ListErrorBody(out.detail),
        images |-> <<>>, total_count |-> 0]

(***************************************************************************)
(* Gallery page: component state, requests in flight, alerts shown.        *)
(***************************************************************************)
VARIABLES
  images,       \* useState<UploadedImage[]>([])
  uploading,    \* useState(false)
  loading,      \* useState(true)
  dragActive,   \* useState(false)
  viewMode,     \* useState('grid')
  searchTerm,   \* useState('')
  mounted,      \* whether the mount effect has run
  fetches,      \* calls of fetchImages, in the order they were issued
  batches,      \* calls of handleFileUpload with a non-empty file list
  clipboard,    \* the system clipboard
  store,        \* the media store's objects
  directs,      \* requests other clients sent to the endpoints
  sizeArg,      \* the argument `bytes` of a call of formatFileSize
  sizeText      \* what that call returned ("" before it returns)

vars ==
  <<images, uploading, loading, dragActive, viewMode, searchTerm, mounted,
    fetches, batches, clipboard, store, directs, sizeArg, sizeText>>

\* the variables of a call of formatFileSize
sizing == <<sizeArg, sizeText>>

\* How a request ends for the page: "ok", the response and its body arrive;
\* "lost", fetch rejects; "badbody", response.json() rejects.
Nets == {"ok", "lost", "badbody"}

\* data.images.map(...) of fetchImages
FormatImage(img) ==
  [id |-> img.public_id,
   url |-> img.secure_url,
   publicId |-> img.public_id,
   originalName |->
     OrElse(OrElse(img.original_filename, SplitPop(img.public_id)),
            <<"U", "n", "k", "n", "o", "w", "n">>),
   uploadedAt |-> img.created_at,
   width |-> img.width,
   height |-> img.height,
   format |-> img.format,
   bytes |-> img.bytes]

FormatImages(data) == [k \in 1..Len(data) |-> FormatImage(data[k])]

\* the value uploadToCloudinary resolves with
UploadedImageOf(data, file) ==
  [id |-> data.public_id,
   url |-> data.secure_url,
   publicId |-> data.public_id,
   originalName |-> file.name,
   uploadedAt |-> data.created_at,
   width |-> data.width,
   height |-> data.height,
   format |-> data.format,
   bytes |-> data.bytes]

\* file.type.startsWith('image'), the slash forgotten
QualifiesNoSlash(file) == StartsWith(file.type, <<"i", "m", "a", "g", "e">>)

\* file.type.startsWith('image/')
Qualifies(file) == StartsWith(file.type, <<"i", "m", "a", "g", "e", "/">>)

\* One entry of a batch per file of the list: the upload call made for it.
\* state: "none" (no call), "inflight" (request sent, promise pending),
\* "resolved", "rejected".  requests: the requests sent for the file.
NewCall(file) ==
  [state |-> IF Qualifies(file) THEN "inflight" ELSE "none",
   requests |-> IF Qualifies(file) THEN 1 ELSE 0]

\* A call of fetchImages.  owner: 0 for the mount effect, b for batch b.
\* state: "inflight" (request sent), "answered" (the endpoint has answered
\* 200, the response is on its way), "done".
NewFetch(owner) ==
  [owner |-> owner, state |-> "inflight", data |-> <<>>, result |-> "pending",
   alerts |-> 0]

InFlight(call) == call.state = "inflight"

Init ==
  /\ images = <<>>
  /\ uploading = FALSE
  /\ loading = TRUE
  /\ dragActive = FALSE
  /\ viewMode = "grid"
  /\ searchTerm = <<>>
  /\ mounted = FALSE
  /\ fetches = <<>>
  /\ batches = <<>>
  /\ clipboard = <<>>
  /\ store \in InitialStores
  /\ directs = <<>>
  /\ sizeArg = Undefined
  /\ sizeText = ""

(***************************************************************************)
(* fetchImages.                                                            *)
(***************************************************************************)
\* useEffect(() => { fetchImages(); }, []): setLoading(true) and the request.
Mount ==
  /\ ~mounted
  /\ mounted' = TRUE
  /\ loading' = TRUE
  /\ fetches' = Append(fetches, NewFetch(0))
  /\ UNCHANGED <<images, uploading, dragActive, viewMode, searchTerm, batches,
                 clipboard, store, directs>>
  /\ UNCHANGED sizing

\* The catch block of fetchImages: one alert.
FetchAlerts(f) == f.alerts + 1

\* What a settled fetchImages leaves of a batch that awaits it:
\* the finally block of handleFileUpload, setUploading(false).
BatchesAfterFetch(owner) ==
  IF owner = 0 THEN batches
  ELSE [batches EXCEPT ![owner].pc = "done"]

UploadingAfterFetch(owner) == IF owner = 0 THEN uploading ELSE FALSE

\* setLoading(false) at the end of the try block instead of in finally
LoadingAfterFailureNoFinally == loading

\* loading after the finally block of fetchImages, on the failure path
LoadingAfterFailure == FALSE

\* fetchImages fails: catch (alert), finally setLoading(false).
FetchFails(k, rec) ==
  /\ fetches' = [fetches EXCEPT ![k] =
                   [rec EXCEPT !.state = "done", !.result = "failed",
                               !.alerts = FetchAlerts(rec)]]
  /\ loading' = LoadingAfterFailure
  /\ images' = images
  /\ batches' = BatchesAfterFetch(rec.owner)
  /\ uploading' = UploadingAfterFetch(rec.owner)

\* setImages(formattedImages)
ImagesAfterFetch(data) == FormatImages(data)

\* The list endpoint answers the request of fetch k with status 200: the
\* response, on its way to the page, holds the store's objects of that moment.
ListAnswered(k, out) ==
  /\ fetches[k].state = "inflight"
  /\ LET resp == GET(Gallery, out, store)
     IN /\ resp.status = 200
        /\ fetches' = [fetches EXCEPT ![k].state = "answered",
                                      ![k].data = resp.images]
  /\ UNCHANGED <<images, uploading, loading, dragActive, viewMode, searchTerm,
                 mounted, batches, clipboard, store, directs>>
  /\ UNCHANGED sizing

\* await fetch(...) and await response.json() of fetch k settle, and
\* fetchImages runs to its end.  From "inflight" the request is lost or
\* the endpoint answers with an error; from "answered" the 200 response
\* arrives ("ok") or does not.
ListSettles(k, net, out) ==
  /\ fetches[k].state \in {"inflight", "answered"}
  /\ IF fetches[k].state = "answered"
     THEN IF net = "ok"
          THEN /\ images' = ImagesAfterFetch(fetches[k].data)
               /\ loading' = FALSE
               /\ fetches' = [fetches EXCEPT ![k].state = "done", ![k].result = "ok"]
               /\ batches' = BatchesAfterFetch(fetches[k].owner)
               /\ uploading' = UploadingAfterFetch(fetches[k].owner)
          ELSE FetchFails(k, fetches[k])
     ELSE /\ net = "lost" \/ GET(Gallery, out, store).status # 200
          /\ FetchFails(k, fetches[k])
  /\ UNCHANGED <<dragActive, viewMode, searchTerm, mounted, clipboard, store,
                 directs>>
  /\ UNCHANGED sizing

(***************************************************************************)
(* handleFileUpload and uploadToCloudinary.                                *)
(***************************************************************************)
\* The loop of handleFileUpload: one uploadToCloudinary call per file whose
\* type starts with image/.
CallsFor(files) == [k \in 1..Len(files) |-> NewCall(files[k])]

AllResolved(calls) == \A k \in 1..Len(calls) : calls[k].state \in {"none", "resolved"}

\* Optimistic insertion of the uploaded image.
ImagesAfterUploadOptimistic(imgs, uploaded) == <<uploaded>> \o imgs

\* The image set after an upload call resolved with `uploaded`: untouched,
\* handleFileUpload drops the values of the calls.
ImagesAfterUpload(imgs, uploaded) == imgs

\* fetchImages() called and not awaited: the finally block runs at once.
AfterAllResolvedNoAwait(bt, k) == [bt EXCEPT !.pc = "done", !.fetch = k]

\* The batch once Promise.all has resolved: handleFileUpload calls
\* fetchImages() (fetch k) and awaits it.
AfterAllResolved(bt, k) == [bt EXCEPT !.pc = "refresh", !.fetch = k]

\* handleFileUpload(files) up to its first await that suspends.  With no
\* qualifying file Promise.all([]) is already resolved and fetchImages() is
\* called before any other event is handled.
StartBatch(files) ==
  LET calls == CallsFor(files)
      b == Len(batches) + 1
      bt == [files |-> files, calls |-> calls, alerts |-> 0,
             pc |-> "uploads", fetch |-> 0]
  IN /\ uploading' = TRUE
     /\ IF AllResolved(calls)
        THEN /\ batches' = Append(batches, AfterAllResolved(bt, Len(fetches) + 1))
             /\ fetches' = Append(fetches, NewFetch(b))
             /\ loading' = TRUE
             /\ UNCHANGED images
        ELSE /\ batches' = Append(batches, bt)
             /\ UNCHANGED <<fetches, loading, images>>

\* onChange of the hidden file input, opened by the button (disabled while
\* uploading).
SelectFiles(files) ==
  /\ mounted
  /\ ~uploading
  /\ Len(batches) < MaxBatches
  /\ files # <<>>
  /\ StartBatch(files)
  /\ UNCHANGED <<dragActive, viewMode, searchTerm, mounted, clipboard, store,
                 directs>>
  /\ UNCHANGED sizing

\* handleDrop: setDragActive(false), handleFileUpload(e.dataTransfer.files).
Drop(files) ==
  /\ mounted
  /\ dragActive' = FALSE
  /\ IF files = <<>>
     THEN UNCHANGED <<uploading, batches, fetches, loading, images>>
     ELSE /\ Len(batches) < MaxBatches
          /\ StartBatch(files)
  /\ UNCHANGED <<viewMode, searchTerm, mounted, clipboard, store, directs>>
  /\ UNCHANGED sizing

\* The catch block of handleFileUpload: one alert.
CatchAlerts(bt) == bt.alerts + 1

\* An alert for every rejected call (each call with a catch of its own).
LateRejectAlertsEach(bt) == bt.alerts + 1

\* A call that rejects after Promise.all has settled: nobody listens.
LateRejectAlerts(bt) == bt.alerts

\* uploading after the batch's Promise.all rejected: catch, then finally.
UploadingAfterReject(bt, calls) == FALSE

\* Call i of batch b settles as `rec` (resolved, with value `uploaded`, or
\* rejected): Promise.all and the rest of handleFileUpload up to its next
\* await.
Settle(b, i, rec, uploaded) ==
  LET bt == batches[b]
      calls == [bt.calls EXCEPT ![i] = rec]
      now == [bt EXCEPT !.calls = calls]
  IN /\ images' = IF rec.state = "resolved"
                  THEN ImagesAfterUpload(images, uploaded) ELSE images
     /\ IF bt.pc # "uploads"
        THEN /\ batches' = [batches EXCEPT ![b] =
                              [now EXCEPT !.alerts =
                                 IF rec.state = "rejected"
                                 THEN LateRejectAlerts(bt) ELSE bt.alerts]]
             /\ UNCHANGED <<uploading, loading, fetches>>
        ELSE IF rec.state = "rejected"
        THEN /\ batches' = [batches EXCEPT ![b] =
                              [now EXCEPT !.alerts = CatchAlerts(bt), !.pc = "done"]]
             /\ uploading' = UploadingAfterReject(bt, calls)
             /\ UNCHANGED <<loading, fetches>>
        ELSE IF AllResolved(calls)
        THEN /\ batches' = [batches EXCEPT ![b] =
                              AfterAllResolved(now, Len(fetches) + 1)]
             /\ fetches' = Append(fetches, NewFetch(b))
             /\ loading' = TRUE
             /\ UNCHANGED uploading
        ELSE /\ batches' = [batches EXCEPT ![b] = now]
             /\ UNCHANGED <<uploading, loading, fetches>>

\* The request of call i of batch b ends: the endpoint handles it unless it
\* is lost, and uploadToCloudinary resolves or throws (a response that is
\* not ok, a rejected fetch or a rejected response.json()).
UploadSettles(b, i, net, out) ==
  /\ batches[b].calls[i].state = "inflight"
  /\ LET call == batches[b].calls[i]
         resp == POST(FilePart(batches[b].files[i]), out, Len(store) + 1)
     IN IF net = "lost"
        THEN /\ Settle(b, i, [call EXCEPT !.state = "rejected"], <<>>)
             /\ store' = store
        ELSE /\ store' = IF resp.created
                         THEN Append(store, NewResource(batches[b].files[i], Gallery,
                                                        Len(store) + 1))
                         ELSE store
             /\ IF net = "ok" /\ resp.status = 200
                THEN Settle(b, i, [call EXCEPT !.state = "resolved"],
                            UploadedImageOf(resp.descriptor, batches[b].files[i]))
                ELSE Settle(b, i, [call EXCEPT !.state = "rejected"], <<>>)
  /\ UNCHANGED <<dragActive, viewMode, searchTerm, mounted, clipboard, directs>>
  /\ UNCHANGED sizing

(***************************************************************************)
(* View state: drag, search, view toggle, copy URL.                        *)
(***************************************************************************)
DragTypes == {"dragenter", "dragover", "dragleave"}

handleDrag(type) ==
  /\ mounted
  /\ dragActive' = IF type \in {"dragenter", "dragover"} THEN TRUE
                   ELSE IF type = "dragleave" THEN FALSE
                   ELSE dragActive
  /\ UNCHANGED <<images, uploading, loading, viewMode, searchTerm, mounted,
                 fetches, batches, clipboard, store, directs>>
  /\ UNCHANGED sizing

\* What the user can type in the search box.
SearchTerms == {<<>>, <<"a", "B">>, <<"B", "A">>, <<"/", "2">>}

\* The search term compared as typed, not lower-cased.
MatchesCaseOfTerm(image, term) ==
  \/ Includes(ToLowerCase(image.originalName), term)
  \/ Includes(ToLowerCase(image.publicId), term)

\* image.originalName.toLowerCase().includes(searchTerm.toLowerCase()) ||
\* image.publicId.toLowerCase().includes(searchTerm.toLowerCase())
Matches(image, term) ==
  \/ Includes(ToLowerCase(image.originalName), ToLowerCase(term))
  \/ Includes(ToLowerCase(image.publicId), ToLowerCase(term))

filteredImages == SelectSeq(images, LAMBDA image : Matches(image, searchTerm))

\* The gallery (search box, view toggle, cards) is rendered only then.
GalleryShown == ~loading /\ images # <<>>

\* onChange of the search box: setSearchTerm(e.target.value)
SetSearchTerm(s) ==
  /\ GalleryShown
  /\ searchTerm' = s
  /\ UNCHANGED <<images, uploading, loading, dragActive, viewMode, mounted,
                 fetches, batches, clipboard, store, directs>>
  /\ UNCHANGED sizing

SetViewMode(m) ==
  /\ GalleryShown
  /\ viewMode' = m
  /\ UNCHANGED <<images, uploading, loading, dragActive, searchTerm, mounted,
                 fetches, batches, clipboard, store, directs>>
  /\ UNCHANGED sizing

\* copyToClipboard(image.url) from a rendered card or row; with or without
\* navigator.clipboard the URL ends in the clipboard.
copyToClipboard(k, clipboardApi) ==
  /\ GalleryShown
  /\ k \in 1..Len(filteredImages)
  /\ clipboard' = filteredImages[k].url
  /\ UNCHANGED <<images, uploading, loading, dragActive, viewMode, searchTerm,
                 mounted, fetches, batches, store, directs>>
  /\ UNCHANGED sizing

(***************************************************************************)
(* Requests other clients send to the endpoints; `directs` logs, for each, *)
(* the request, what the store answered and the handler's response.        *)
(***************************************************************************)
EmptyFile == [name |-> <<"e">>, type |-> ImagePng, size |-> 0]

DirectParts ==
  {NoPart, BadForm, TextPart(<<>>), TextPart(<<"x">>), FilePart(EmptyFile),
   FilePart(Txt)}

\* the folder parameter of a list request: absent, gallery, another folder
FolderParams == {<<>>, Gallery, <<"x">>}

DirectPost(part, out) ==
  /\ Len(directs) < MaxDirect
  /\ LET resp == POST(part, out, Len(store) + 1)
     IN /\ directs' = Append(directs,
                             [method |-> "POST", part |-> part, folder |-> <<>>,
                              out |-> out, status |-> resp.status,
                              error |-> resp.error, invoked |-> resp.invoked,
                              before |-> Len(store), listed |-> 0])
        /\ store' = IF resp.created
                    THEN Append(store, NewResource(part.file, Gallery,
                                                   Len(store) + 1))
                    ELSE store
  /\ UNCHANGED <<images, uploading, loading, dragActive, viewMode, searchTerm,
                 mounted, fetches, batches, clipboard>>
  /\ UNCHANGED sizing

DirectGet(folderParam, out) ==
  /\ Len(directs) < MaxDirect
  /\ LET resp == GET(folderParam, out, store)
     IN directs' = Append(directs,
                          [method |-> "GET", part |-> NoPart, folder |-> folderParam,
                           out |-> out, status |-> resp.status,
                           error |-> resp.error, invoked |-> TRUE,
                           before |-> Len(store), listed |-> Len(resp.images)])
  /\ UNCHANGED <<images, uploading, loading, dragActive, viewMode, searchTerm,
                 mounted, fetches, batches, clipboard, store>>
  /\ UNCHANGED sizing

(***************************************************************************)
(* formatFileSize.                                                         *)
(***************************************************************************)
sizes == <<"Bytes", "KB", "MB", "GB">>

\* sizes[i] of a JavaScript array: undefined past its end
SizesAt(i) == IF i + 1 \in DOMAIN sizes THEN sizes[i + 1] ELSE "undefined"

RECURSIVE Pow1024(_)
Pow1024(i) == IF i = 0 THEN 1 ELSE 1024 * Pow1024(i - 1)

\* Math.floor(Math.log(b) / Math.log(1024)) for b >= 1
RECURSIVE FloorLog1024(_)
FloorLog1024(b) == IF b < 1024 THEN 0 ELSE 1 + FloorLog1024(b \div 1024)

\* Math.round(b / Math.pow(1024, i) * 100): the scaled count in hundredths,
\* halves rounded up.  The remainder is split for i = 3 so that no
\* intermediate value leaves the 32-bit range.
RoundHundredths(b, i) ==
  LET d == Pow1024(i)
      q == b \div d
      r == b % d
  IN IF i < 3
     THEN 100 * q + (100 * r + d \div 2) \div d
     ELSE 100 * q
          + (100 * (r \div 32768) + 16384 + (100 * (r % 32768)) \div 32768)
              \div 32768

\* h / 100 as JavaScript prints it: no trailing zeros, no bare point
NumberText(h) ==
  LET f == h % 100
  IN ToString(h \div 100)
       \o (IF f = 0 THEN ""
           ELSE IF f % 10 = 0 THEN "." \o ToString(f \div 10)
           ELSE IF f < 10 THEN ".0" \o ToString(f)
           ELSE "." \o ToString(f))

\* !bytes : undefined and 0 are falsy
NotBytes(b) == b = Undefined \/ b = 0

formatFileSize(b) ==
  IF NotBytes(b) THEN "Unknown"
  ELSE IF b = 0 THEN "0 Byte"
  ELSE LET i == FloorLog1024(b)
       IN NumberText(RoundHundredths(b, i)) \o " " \o SizesAt(i)

\* The byte counts formatFileSize is tried on: no count (image.bytes
\* undefined), the small counts, and counts around each unit's threshold.
ByteCounts ==
  {Undefined} \cup 0..MaxSmallBytes
    \cup {1023, 1024, 1025, 1126, 1536, 2047, 10240, 1048575, 1048576,
          1572864, 5452595, 1073741823, 1073741824, 1610612736, 2147483647}

InitFormat ==
  /\ images = <<>>
  /\ uploading = FALSE
  /\ loading = TRUE
  /\ dragActive = FALSE
  /\ viewMode = "grid"
  /\ searchTerm = <<>>
  /\ mounted = FALSE
  /\ fetches = <<>>
  /\ batches = <<>>
  /\ clipboard = <<>>
  /\ store \in InitialStores
  /\ directs = <<>>
  /\ sizeArg \in ByteCounts
  /\ sizeText = ""

\* the call returns
FormatSize ==
  /\ sizeText = ""
  /\ sizeText' = formatFileSize(sizeArg)
  /\ UNCHANGED <<images, uploading, loading, dragActive, viewMode, searchTerm,
                 mounted, fetches, batches, clipboard, store, directs, sizeArg>>

NextFormat == FormatSize

SpecFormat == InitFormat /\ [][NextFormat]_vars

(***************************************************************************)
(* Specification.                                                          *)
(***************************************************************************)
Next ==
  \/ Mount
  \/ \E k \in 1..Len(fetches), out \in StoreOutcomes : ListAnswered(k, out)
  \/ \E k \in 1..Len(fetches), net \in Nets, out \in StoreOutcomes :
       ListSettles(k, net, out)
  \/ \E files \in FileLists : SelectFiles(files)
  \/ \E files \in FileLists : Drop(files)
  \/ \E b \in 1..Len(batches) :
       \E i \in 1..Len(batches[b].calls), net \in Nets, out \in StoreOutcomes :
         UploadSettles(b, i, net, out)
  \/ \E type \in DragTypes : handleDrag(type)
  \/ \E s \in SearchTerms : SetSearchTerm(s)
  \/ \E m \in {"grid", "list"} : SetViewMode(m)
  \/ \E k \in 1..Len(filteredImages), api \in BOOLEAN : copyToClipboard(k, api)

Spec == Init /\ [][Next]_vars

\* Every request sent is answered or fails, and the mount effect runs.
Fairness ==
  /\ WF_vars(Mount)
  /\ WF_vars(\E k \in 1..Len(fetches), net \in Nets, out \in StoreOutcomes :
               ListSettles(k, net, out))
  /\ WF_vars(\E b \in 1..Len(batches) :
               \E i \in 1..Len(batches[b].calls), net \in Nets,
                  out \in StoreOutcomes : UploadSettles(b, i, net, out))

FairSpec == Spec /\ Fairness

\* The two endpoints alone, under requests of any client.
NextServer ==
  \/ \E part \in DirectParts, out \in StoreOutcomes : DirectPost(part, out)
  \/ \E folderParam \in FolderParams, out \in StoreOutcomes :
       DirectGet(folderParam, out)

SpecServer == Init /\ [][NextServer]_vars

\* handleDrop with a non-empty file list, whatever `uploading` is: the drop
\* zone does not look at the flag, so a drop starts a batch while another
\* is in progress.
DropAgain(files) ==
  /\ mounted
  /\ files # <<>>
  /\ Len(batches) < MaxDrops
  /\ dragActive' = FALSE
  /\ StartBatch(files)
  /\ UNCHANGED <<viewMode, searchTerm, mounted, clipboard, store, directs>>
  /\ UNCHANGED sizing

\* The page under successive drops: the mount fetch, the upload calls and
\* the refreshes of overlapping batches, without the view state.
NextDrops ==
  \/ Mount
  \/ \E k \in 1..Len(fetches), out \in StoreOutcomes : ListAnswered(k, out)
  \/ \E k \in 1..Len(fetches), net \in Nets, out \in StoreOutcomes :
       ListSettles(k, net, out)
  \/ \E files \in FileLists : DropAgain(files)
  \/ \E b \in 1..Len(batches) :
       \E i \in 1..Len(batches[b].calls), net \in Nets, out \in StoreOutcomes :
         UploadSettles(b, i, net, out)

SpecDrops == Init /\ [][NextDrops]_vars

(***************************************************************************)
(* Properties.                                                             *)
(***************************************************************************)
Batches == 1..Len(batches)
Calls(b) == 1..Len(batches[b].calls)

\* The step in which handleFileUpload of batch b reaches its finally block
\* (setUploading(false)).
Finishes(b) == batches[b].pc # "done" /\ batches'[b].pc = "done"

\* C1: handleFileUpload waits for all upload calls of the batch: uploading is
\* not set back to false while an upload call of that batch is in flight,
\* whether the other calls succeeded or failed.
C1_WaitsForAllUploads ==
  [][\A b \in Batches :
       Finishes(b) =>
         /\ uploading' = FALSE
         /\ \A i \in Calls(b) : ~InFlight(batches'[b].calls[i])]_vars

\* C1, reached case: a call of the batch is rejected, handleFileUpload is
\* over (uploading is false) and another call of the batch is in flight.
C1_EndsWithCallInFlight ==
  \E b \in Batches :
    /\ batches[b].pc = "done"
    /\ ~uploading
    /\ \E i, j \in Calls(b) :
         /\ batches[b].calls[i].state = "rejected"
         /\ InFlight(batches[b].calls[j])

HasRejected(b) == \E i \in Calls(b) : batches[b].calls[i].state = "rejected"

\* C2 as claimed: whenever a batch ends (all its uploads succeeded, or one
\* failed), fetchImages has been re-run for it and has settled before
\* uploading is set to false.
C2_RefetchAlways ==
  [][\A b \in Batches :
       Finishes(b) =>
         /\ batches'[b].fetch \in 1..Len(fetches')
         /\ fetches'[batches'[b].fetch].state = "done"]_vars

\* C2 as amended: when all upload calls of a batch have succeeded (or no file
\* qualifies) fetchImages is re-run for the batch, and the batch sets
\* uploading to false only in the step in which that fetch settles; when an
\* upload call fails, no fetch is issued for the batch and uploading is set
\* to false in the step of the failure.  Nothing else sets uploading to false.
C2_RefetchAfterSuccess ==
  /\ [](\A b \in Batches :
          LET bt == batches[b]
          IN /\ AllResolved(bt.calls) =>
                  /\ bt.fetch \in 1..Len(fetches)
                  /\ fetches[bt.fetch].owner = b
                  /\ bt.pc = "done" => fetches[bt.fetch].state = "done"
             /\ ~AllResolved(bt.calls) => bt.fetch = 0)
  /\ [][\A b \in Batches :
          Finishes(b) =>
            /\ uploading' = FALSE
            /\ IF AllResolved(batches'[b].calls)
               THEN /\ fetches[batches[b].fetch].state # "done"
                    /\ fetches'[batches[b].fetch].state = "done"
               ELSE /\ HasRejected(b)'
                    /\ ~HasRejected(b)
                    /\ fetches' = fetches]_vars
  /\ [][(uploading /\ ~uploading') => \E b \in Batches : Finishes(b)]_vars

\* C2, reached case: a batch whose upload call succeeded has ended after its
\* fetch settled.
C2_EndedAfterRefetch ==
  \E b \in Batches :
    /\ batches[b].pc = "done"
    /\ ~uploading
    /\ \E i \in Calls(b) : batches[b].calls[i].state = "resolved"
    /\ AllResolved(batches[b].calls)
    /\ fetches[batches[b].fetch].state = "done"

\* the alerts shown for batch b: by handleFileUpload and by its fetchImages
AlertsFor(b) ==
  batches[b].alerts
    + (IF batches[b].fetch = 0 THEN 0 ELSE fetches[batches[b].fetch].alerts)

\* C3: when at least one upload call of a batch fails, exactly one alert is
\* shown for the batch, however many of its calls fail, and (every request
\* eventually settling) uploading is eventually false again.
C3_OneAlertThenNotUploading ==
  /\ [](\A b \in Batches : HasRejected(b) => AlertsFor(b) = 1)
  /\ \A b \in 1..MaxBatches :
       (b \in Batches /\ HasRejected(b)) ~> (uploading = FALSE)

\* C3, reached case: two calls of a batch have failed, one alert was shown.
C3_TwoFailuresOneAlert ==
  \E b \in Batches :
    /\ \E i, j \in Calls(b) :
         /\ i # j
         /\ batches[b].calls[i].state = "rejected"
         /\ batches[b].calls[j].state = "rejected"
    /\ AlertsFor(b) = 1
    /\ ~uploading

RECURSIVE RequestsSent(_)
RequestsSent(calls) ==
  IF calls = <<>> THEN 0 ELSE Head(calls).requests + RequestsSent(Tail(calls))

\* C4: the upload requests sent for a file list are as many as its files
\* whose type begins with image/: one for each such file, none for another
\* file, at any time (none is sent again).
C4_OneRequestPerImage ==
  \A b \in Batches :
    LET bt == batches[b]
        BeginsWithImageSlash(t) ==
          /\ Len(t) >= 6
          /\ t[1] = "i" /\ t[2] = "m" /\ t[3] = "a" /\ t[4] = "g"
          /\ t[5] = "e" /\ t[6] = "/"
    IN /\ Len(bt.calls) = Len(bt.files)
       /\ \A i \in Calls(b) :
            bt.calls[i].requests =
              IF BeginsWithImageSlash(bt.files[i].type) THEN 1 ELSE 0
       /\ \A i \in Calls(b) : (bt.calls[i].state = "none") = (bt.calls[i].requests = 0)
       /\ RequestsSent(bt.calls) =
            Cardinality({i \in Calls(b) : BeginsWithImageSlash(bt.files[i].type)})

\* C4, reached case: of three files one is text; two requests were sent, one
\* of them failed and none was sent again.
C4_ThreeFilesTwoRequests ==
  \E b \in Batches :
    /\ Len(batches[b].files) = 3
    /\ batches[b].pc = "done"
    /\ HasRejected(b)
    /\ \A i \in Calls(b) : ~InFlight(batches[b].calls[i])
    /\ RequestsSent(batches[b].calls) = 2

\* the step in which the fetch of the mount effect settles
MountFetchSettles ==
  /\ mounted
  /\ fetches[1].state # "done"
  /\ fetches'[1].state = "done"

\* C5: the mount effect sets loading and issues exactly one list fetch; when
\* that fetch settles loading becomes false; on success the image set is the
\* mapped response, on failure one alert is shown and the image set is left
\* as it is: empty, as long as no fetch has succeeded.
C5_MountFetch ==
  /\ [](/\ Cardinality({k \in 1..Len(fetches) : fetches[k].owner = 0})
             = (IF mounted THEN 1 ELSE 0)
        /\ ~mounted => (loading /\ fetches = <<>>)
        /\ (\A k \in 1..Len(fetches) : fetches[k].result # "ok") => images = <<>>)
  /\ [][(~mounted /\ mounted') =>
          /\ loading'
          /\ Len(fetches') = 1
          /\ fetches'[1].owner = 0
          /\ fetches'[1].state = "inflight"]_vars
  /\ [][MountFetchSettles =>
          /\ loading' = FALSE
          /\ fetches'[1].result \in {"ok", "failed"}
          /\ fetches'[1].result = "ok" =>
               /\ images' = FormatImages(fetches[1].data)
               /\ fetches'[1].alerts = 0
          /\ fetches'[1].result = "failed" =>
               /\ images' = images
               /\ fetches'[1].alerts = 1]_vars

\* C5, reached case: the mount fetch has failed.
C5_MountFetchFailed ==
  /\ mounted
  /\ fetches[1].state = "done"
  /\ fetches[1].result = "failed"
  /\ fetches[1].alerts = 1
  /\ images = <<>>
  /\ ~loading

\* C6: images changes only in a step in which a list fetch succeeds, and
\* becomes the mapped response; uploads that succeed or fail, a list fetch
\* that fails, search, view toggle, drag and copy leave it as it is.
C6_ImagesOnlyFromFetch ==
  /\ [][images' # images =>
          \E k \in 1..Len(fetches) :
            /\ fetches[k].state = "answered"
            /\ fetches'[k].state = "done"
            /\ fetches'[k].result = "ok"
            /\ images' = FormatImages(fetches[k].data)]_vars
  /\ [][(\/ Len(batches') # Len(batches)
         \/ \E b \in Batches : batches'[b].calls # batches[b].calls
         \/ searchTerm' # searchTerm
         \/ viewMode' # viewMode
         \/ dragActive' # dragActive
         \/ clipboard' # clipboard
         \/ \E k \in 1..Len(fetches) :
              fetches'[k].result = "failed" /\ fetches[k].result # "failed")
        => images' = images]_vars

\* C6, reached case: an upload has succeeded, the store holds the object and
\* the image set does not.
C6_UploadedNotInserted ==
  \E b \in Batches :
    /\ \E i \in Calls(b) : batches[b].calls[i].state = "resolved"
    /\ Len(images) < Len(store)

Served == 1..Len(directs)

\* the store call of served request k failed
StoreFailed(k) == directs[k].invoked /\ ~directs[k].out.ok

\* C7: in both handlers a failed store call ends in a response of status 500
\* whose error text is the handler's fixed one ("Upload failed", "Failed to
\* fetch images") and holds nothing of the store's error.
C7_StoreFailureIsGeneric500 ==
  \A k \in Served :
    StoreFailed(k) =>
      /\ directs[k].status = 500
      /\ directs[k].error =
           (IF directs[k].method = "POST" THEN "Upload failed"
            ELSE "Failed to fetch images")
      /\ directs[k].error # directs[k].out.detail
      /\ directs[k].error \notin StoreErrors

\* C7, reached case: the store failed an upload and a search.
C7_BothHandlersFailed ==
  \E j, k \in Served :
    /\ directs[j].method = "POST" /\ StoreFailed(j) /\ directs[j].status = 500
    /\ directs[k].method = "GET" /\ StoreFailed(k) /\ directs[k].status = 500

\* C8: an upload request without a non-empty file part in field `file` is
\* answered with status 400 and the store's upload is not invoked for it.
C8_NoFileIs400 ==
  LET LacksNonEmptyFile(part) == part.kind # "file" \/ part.file.size = 0
  IN \A k \in Served :
       (directs[k].method = "POST" /\ LacksNonEmptyFile(directs[k].part)) =>
         /\ directs[k].status = 400
         /\ ~directs[k].invoked

\* C8, reached case: an upload request with a zero-byte file part reached
\* the store.
C8_EmptyFileReachesStore ==
  \E k \in Served :
    /\ directs[k].method = "POST"
    /\ directs[k].part = FilePart(EmptyFile)
    /\ directs[k].invoked
    /\ directs[k].status # 400

\* C9: for a byte count b >= 0 formatFileSize(b) is "0 Byte" when b = 0 and
\* otherwise a number followed by the unit of [Bytes, KB, MB, GB] at index
\* floor(log_1024(b)); formatFileSize(1536) is "1.5 KB".
C9_FormatFileSize ==
  LET \* the index i with 1024^i <= b < 1024^(i+1), for 1 <= b < 2^31
      UnitIndex(b) ==
        CHOOSE i \in 0..3 : Pow1024(i) <= b /\ (i = 3 \/ b < Pow1024(i + 1))
  IN (sizeText # "" /\ sizeArg >= 0) =>
       /\ sizeArg = 0 => sizeText = "0 Byte"
       /\ sizeArg > 0 =>
            sizeText = NumberText(RoundHundredths(sizeArg, UnitIndex(sizeArg)))
                         \o " " \o sizes[UnitIndex(sizeArg) + 1]
       /\ sizeArg = 1536 => sizeText = "1.5 KB"

\* C9, reached case: formatFileSize(0) has returned "Unknown".
C9_ZeroIsUnknown == sizeArg = 0 /\ sizeText = "Unknown"

\* C10: filteredImages is the images at the selected positions, in their
\* order; with an empty search term it is the whole set; a change of the
\* search term sends no list request.
C10_FilteredImages ==
  /\ [](LET \* two characters that are the same letter, case aside
            SameLetter(c, d) ==
              \/ c = d
              \/ {c, d} \in {{"a", "A"}, {"b", "B"}, {"g", "G"}}
            \* t holds s as a substring, case aside
            ContainsFolded(t, s) ==
              \E o \in 0..(Len(t) - Len(s)) :
                \A j \in 1..Len(s) : SameLetter(t[o + j], s[j])
            \* the positions of the images the search term selects
            Selected ==
              {k \in 1..Len(images) :
                 \/ ContainsFolded(images[k].originalName, searchTerm)
                 \/ ContainsFolded(images[k].publicId, searchTerm)}
        IN /\ Len(filteredImages) = Cardinality(Selected)
           /\ \A k \in Selected :
                filteredImages[Cardinality({m \in Selected : m <= k})]
                  = images[k]
           /\ searchTerm = <<>> => filteredImages = images)
  /\ [][searchTerm' # searchTerm =>
          /\ fetches' = fetches
          /\ batches' = batches
          /\ images' = images]_vars

\* C10, reached case: of several images the search term, in another case
\* than the name, selects some and not all.
C10_SearchSelectsSome ==
  /\ searchTerm = <<"B", "A">>
  /\ Len(images) >= 2
  /\ Len(filteredImages) = 1
  /\ filteredImages[1].originalName = <<"B", "a">>

\* the list calls, in the order they were issued
Fetched == 1..Len(fetches)

\* the list calls that succeeded
Succeeded == {k \in Fetched : fetches[k].result = "ok"}

\* the step in which list call k succeeds: setImages of its response
Succeeds(k) == fetches[k].result # "ok" /\ fetches'[k].result = "ok"

\* C11: once no list fetch is in flight the image set is the mapped response
\* of the most recently issued list call that succeeded; the response of an
\* earlier-issued list call does not overwrite the result of a later-issued
\* one.
C11_LastIssuedWins ==
  /\ []((\A k \in Fetched : fetches[k].state = "done") =>
          \A k \in Succeeded :
            (\A j \in Succeeded : j <= k) =>
              images = FormatImages(fetches[k].data))
  /\ [][\A k \in Fetched :
          Succeeds(k) => ~\E j \in Succeeded : j > k]_vars

\* C11, reached case: no list fetch is in flight, a list call issued after
\* another succeeded with the uploaded image, and the image set is the
\* response of the earlier-issued one, without that image.
C11_StaleResponseShown ==
  /\ \A k \in Fetched : fetches[k].state = "done"
  /\ \E j, k \in Succeeded :
       /\ j < k
       /\ \A m \in Succeeded : m <= k
       /\ Len(fetches[j].data) < Len(fetches[k].data)
       /\ images = FormatImages(fetches[j].data)
       /\ images # FormatImages(fetches[k].data)

\* a list fetch is in flight: its request is sent and fetchImages has not
\* reached its finally block
ListInFlight == \E k \in Fetched : fetches[k].state # "done"

\* an upload call is in flight
UploadInFlight ==
  \E b \in Batches : \E i \in Calls(b) : InFlight(batches[b].calls[i])

\* C12: loading is true whenever a list fetch is in flight, and uploading is
\* true whenever an upload call is in flight, also when fetches or batches
\* overlap.
C12_FlagsCoverRequests ==
  /\ ListInFlight => loading
  /\ UploadInFlight => uploading

\* C12, reached case: no upload call has failed; of two batches started by
\* successive drops the first has ended after its refresh, which left both
\* flags false, while an upload call of the second and a list fetch are in
\* flight.
C12_FlagsDownWhileBusy ==
  /\ Len(batches) = 2
  /\ \A b \in Batches : ~HasRejected(b)
  /\ batches[1].pc = "done"
  /\ fetches[batches[1].fetch].result = "ok"
  /\ ~uploading
  /\ ~loading
  /\ UploadInFlight
  /\ ListInFlight

=============================================================================
